---- MODULE Spec2Model ----
(***************************************************************************)
(* KYC Gateway server (server.js): the /kyc/submit and /kyc/status         *)
(* handlers, the deferred processVerification worker, the SQLite table     *)
(* `verifications` and the KycVault ledger the worker talks to.            *)
(*                                                                         *)
(* Every handler, database statement and ledger outcome is one step.  The  *)
(* sqlite3 handle is used in its default (parallel) mode: a statement      *)
(* handed to db.run is executed later, in no fixed order with respect to   *)
(* other statements, any statement may fail, and a db.run without a        *)
(* callback drops its error.  Requests, worker runs and statements carry   *)
(* no identity of their own in the code, so they are kept in bags.         *)
(***************************************************************************)
EXTENDS Integers, Sequences, FiniteSets, Bags, TLC

VARIABLES
    db,       \* table verifications: wallet text -> row
    inflight, \* valid submit requests whose SELECT has executed, callback not yet run
    nreq,     \* valid submit requests received so far
    resp,     \* the answer sent by the step just taken, if any
    dbq,      \* write statements handed to db.run and not yet executed
    workers,  \* processVerification runs: timer pending or awaiting the ledger
    ntx,      \* transactions the ledger has accepted so far
    chain,    \* attestations the ledger has confirmed
    now,      \* Date.now() in seconds
    phase,    \* per wallet, for the properties: "open" from a 202 answer until a
              \* terminal UPDATE changes the row, then "verified" or "failed";
              \* "lost" when the server stopped while it was "open"
    app,      \* index.tsx, App: walletAddress, kycStatus, activeScreen
    pending,  \* index.tsx: promises the page awaits (status calls, wallet prompts)
    guide     \* index.tsx, SetupGuide: its useState values and where handleDeploy is

vars == <<db, inflight, nreq, resp, dbq, workers, ntx, chain, now, phase, app, pending, guide>>

\* the state of the page in the browser
Browser == <<app, pending, guide>>

\* the state of the server and the ledger
Server == <<db, inflight, nreq, dbq, workers, ntx, chain, now, phase>>

----------------------------------------------------------------------------
(* Bounds *)

MaxReqs == 2
MaxClock == 1
AddrLen == 2
MaxCalls == 2

----------------------------------------------------------------------------
(* Identity strings and ethers.isAddress *)

Lower == {"a", "b"}
Upper == {"A", "B"}
Digits == {"0", "1"}
HexChars == Lower \cup Upper \cup Digits

ToUpper(c) == CASE c = "a" -> "A" [] c = "b" -> "B" [] OTHER -> c
ToLower(c) == CASE c = "A" -> "a" [] c = "B" -> "b" [] OTHER -> c

Str(s) == [type |-> "string", val |-> s]
Undefined == [type |-> "undefined", val |-> <<>>]

Rep(c, n) == [i \in 1..n |-> c]

\* stand-in for the keccak-derived EIP-55 casing: one fixed casing per address
ToChecksum(body) ==
    [i \in 1..Len(body) |-> IF i = 1 THEN ToUpper(body[i]) ELSE ToLower(body[i])]

HasPrefix(s) == Len(s) >= 2 /\ s[1] = "0" /\ s[2] = "x"

isAddress(v) ==
    /\ v.type = "string"
    /\ LET body == IF HasPrefix(v.val) THEN SubSeq(v.val, 3, Len(v.val)) ELSE v.val
           mixed == /\ \E i \in 1..Len(body) : body[i] \in Upper
                    /\ \E i \in 1..Len(body) : body[i] \in Lower
       IN  /\ Len(body) = AddrLen
           /\ \A i \in 1..Len(body) : body[i] \in HexChars
           /\ mixed => body = ToChecksum(body)

\* JavaScript truthiness of req.body.walletAddress
Falsy(v) == v.type = "undefined" \/ v.val = <<>>

WalletA == Str(<<"0", "x">> \o Rep("a", AddrLen))
WalletAck == Str(<<"0", "x", "A">> \o Rep("a", AddrLen - 1))
WalletB == Str(<<"0", "x">> \o Rep("b", AddrLen))
BadSum == Str(<<"0", "x">> \o Rep("a", AddrLen - 1) \o <<"A">>)
Short == Str(<<"0", "x">> \o Rep("a", AddrLen - 1))
Empty == Str(<<>>)

\* req.body.walletAddress may be anything; req.params.wallet is a non-empty string
SubmitInputs == {WalletA, BadSum, Short, Empty, Undefined}
StatusInputs == {WalletA, BadSum, Short}

\* the wallet texts a row can be stored under
Keys == {v.val : v \in {w \in {WalletA, WalletAck, WalletB, BadSum, Short} : isAddress(w)}}

----------------------------------------------------------------------------
(* Rows, payloads *)

NullHash == <<>>
NullInt == 0 - 1

NoRow == [status |-> "absent", hash |-> NullHash, expiry |-> NullInt, txHash |-> NullInt]
ErrRow == [status |-> "error", hash |-> NullHash, expiry |-> NullInt, txHash |-> NullInt]

Issuer == <<"0", "x">> \o Rep("1", AddrLen)

Year == 365 * 24 * 60 * 60

\* a digest that also takes in how many transactions the ledger has accepted
verificationHashSalted(wallet, expiry) ==
    <<Issuer, ToChecksum(SubSeq(wallet, 3, Len(wallet))), expiry + ntx>>

\* solidityPackedKeccak256(['address','address','uint256'], [issuer, wallet, expiry])
verificationHash(wallet, expiry) == <<Issuer, ToChecksum(SubSeq(wallet, 3, Len(wallet))), expiry>>

\* issuerWallet.signMessage(getBytes(hash))
signature(hash) == <<"sig", Issuer, hash>>

Put(bag, x) == bag (+) SetToBag({x})
Take(bag, x) == bag (-) SetToBag({x})

NoResp == [kind |-> "none", wallet |-> Undefined, row |-> NoRow, code |-> 0,
           status |-> "none", expiry |-> NullInt, txHash |-> NullInt, was |-> "none"]

\* walletAddress is null while no wallet is connected
NoWallet == <<>>

\* useState('home'), useState(null), useState('None'); fetchedFor is for the
\* properties: the wallet the shown kycStatus was fetched for
AppStart ==
    [activeScreen |-> "home", walletAddress |-> NoWallet, kycStatus |-> "None",
     fetchedFor |-> NoWallet]

\* SetupGuide: useState(0), useState(''), useState(false), useState(null),
\* useState(''). deploymentResult is the address field of the result, pc is
\* the await at which handleDeploy stands, and confirmed tells whether
\* waitForDeployment has resolved for the deployment of the last run
GuideStart ==
    [activeStep |-> 0, contractAddressInput |-> "", isDeploying |-> FALSE,
     deploymentResult |-> "null", deploymentError |-> "", pc |-> "idle",
     confirmed |-> FALSE]

Init ==
    /\ app = AppStart
    /\ pending = EmptyBag
    /\ guide = GuideStart
    /\ db = [k \in Keys |-> NoRow]
    /\ inflight = EmptyBag
    /\ nreq = 0
    /\ resp = NoResp
    /\ dbq = EmptyBag
    /\ workers = EmptyBag
    /\ ntx = 0
    /\ chain = {}
    /\ now = 0
    /\ phase = [k \in Keys |-> "none"]

\* a step that answers no request
Silent == resp' = NoResp

\* res.status(code).json(...)
Answer(kind, v, row, code, status) ==
    resp' = [NoResp EXCEPT !.kind = kind, !.wallet = v, !.row = row, !.code = code,
                           !.status = status,
                           !.was = IF isAddress(v) THEN phase[v.val] ELSE "none"]

----------------------------------------------------------------------------
(* POST /kyc/submit *)

\* !walletAddress || !ethers.isAddress(walletAddress)
SubmitValid(v) == ~(Falsy(v) \/ ~isAddress(v))

\* a request that fails the validation
SubmitInvalid(v) ==
    /\ ~SubmitValid(v)
    /\ Answer("submit", v, NoRow, 400, "error")
    /\ UNCHANGED <<db, inflight, nreq, dbq, workers, ntx, chain, now, phase>>

\* a valid request, up to the execution of its SELECT status
SubmitRead(v) ==
    /\ SubmitValid(v)
    /\ nreq < MaxReqs
    /\ nreq' = nreq + 1
    /\ inflight' = Put(inflight, [wallet |-> v.val, row |-> db[v.val]])
    /\ Silent
    /\ UNCHANGED <<db, dbq, workers, ntx, chain, now, phase>>

\* a valid request whose SELECT fails: the callback gets err and answers 500
SubmitReadError(v) ==
    /\ SubmitValid(v)
    /\ Answer("submit", v, ErrRow, 500, "error")
    /\ UNCHANGED <<db, inflight, nreq, dbq, workers, ntx, chain, now, phase>>

\* the check with the 'Verified' case forgotten
ConflictPendingOnly(row) == row # NoRow /\ row.status = "Pending"

\* row && (row.status === 'Pending' || row.status === 'Verified')
Conflict(row) == row # NoRow /\ (row.status = "Pending" \/ row.status = "Verified")

\* INSERT OR REPLACE INTO verifications (wallet, status) VALUES (?, 'Pending')
InsertOp(k) ==
    [op |-> "insert", wallet |-> k, hash |-> NullHash, expiry |-> NullInt,
     txHash |-> NullInt]

\* a handler that calls the ledger before it answers
NewWorkerCalling(k) == [wallet |-> k, pc |-> "submitting", expiry |-> Year, txHash |-> NullInt]

\* setTimeout(() => processVerification(walletAddress), 5000)
NewWorker(k) == [wallet |-> k, pc |-> "timer", expiry |-> NullInt, txHash |-> NullInt]

\* the callback of db.get in the submit handler, for a row that was read
SubmitCallback(q) ==
    /\ BagIn(q, inflight)
    /\ inflight' = Take(inflight, q)
    /\ IF Conflict(q.row)
       THEN /\ Answer("submit", Str(q.wallet), q.row, 409, q.row.status)
            /\ UNCHANGED <<dbq, workers, phase>>
       ELSE /\ dbq' = Put(dbq, InsertOp(q.wallet))
            /\ workers' = Put(workers, NewWorker(q.wallet))
            /\ Answer("submit", Str(q.wallet), q.row, 202, "Pending")
            /\ phase' = [phase EXCEPT ![q.wallet] = "open"]
    /\ UNCHANGED <<db, nreq, ntx, chain, now>>

----------------------------------------------------------------------------
(* GET /kyc/status/:wallet *)

\* a validation that insists on the checksummed spelling
StatusValidStrict(v) ==
    isAddress(v) /\ SubSeq(v.val, 3, Len(v.val)) = ToChecksum(SubSeq(v.val, 3, Len(v.val)))

\* !ethers.isAddress(wallet)
StatusValid(v) == isAddress(v)

\* a request that fails the validation
StatusInvalid(v) ==
    /\ ~StatusValid(v)
    /\ Answer("status", v, NoRow, 400, "error")
    /\ UNCHANGED <<db, inflight, nreq, dbq, workers, ntx, chain, now, phase>>

\* row.expiry || null, row.txHash || null
OrNull(x) == IF x = 0 THEN NullInt ELSE x

\* a status handler that stores a row for a wallet it has not seen
StatusRequestCaches(v) ==
    /\ StatusValid(v)
    /\ LET row == db[v.val]
       IN  /\ resp' = [NoResp EXCEPT !.kind = "status", !.wallet = v, !.row = row,
                                      !.code = 200,
                                      !.status = IF row # NoRow THEN row.status ELSE "None",
                                      !.expiry = OrNull(row.expiry),
                                      !.txHash = OrNull(row.txHash),
                                      !.was = phase[v.val]]
           /\ db' = [db EXCEPT ![v.val] = IF row = NoRow THEN [NoRow EXCEPT !.status = "None"]
                                          ELSE row]
    /\ UNCHANGED <<inflight, nreq, dbq, workers, ntx, chain, now, phase>>

\* a status handler that takes a 'Failed' row for no row
StatusRequestFailedAsNone(v) ==
    /\ StatusValid(v)
    /\ LET row == db[v.val]
       IN  IF row # NoRow /\ row.status # "Failed"
           THEN resp' = [NoResp EXCEPT !.kind = "status", !.wallet = v, !.row = row,
                                       !.code = 200, !.status = row.status,
                                       !.expiry = OrNull(row.expiry),
                                       !.txHash = OrNull(row.txHash),
                                       !.was = phase[v.val]]
           ELSE Answer("status", v, row, 200, "None")
    /\ UNCHANGED <<db, inflight, nreq, dbq, workers, ntx, chain, now, phase>>

\* a valid request: its SELECT * and the callback, which only answers
StatusRequest(v) ==
    /\ StatusValid(v)
    /\ LET row == db[v.val]
       IN  IF row # NoRow
           THEN resp' = [NoResp EXCEPT !.kind = "status", !.wallet = v, !.row = row,
                                       !.code = 200, !.status = row.status,
                                       !.expiry = OrNull(row.expiry),
                                       !.txHash = OrNull(row.txHash),
                                       !.was = phase[v.val]]
           ELSE Answer("status", v, row, 200, "None")
    /\ UNCHANGED <<db, inflight, nreq, dbq, workers, ntx, chain, now, phase>>

\* a valid request whose SELECT fails
StatusReadError(v) ==
    /\ StatusValid(v)
    /\ Answer("status", v, ErrRow, 500, "error")
    /\ UNCHANGED <<db, inflight, nreq, dbq, workers, ntx, chain, now, phase>>

----------------------------------------------------------------------------
(* SQLite: statements of db.run *)

PendingRow == [status |-> "Pending", hash |-> NullHash, expiry |-> NullInt, txHash |-> NullInt]

\* a 'Failed' write that removes the row instead of marking it
WrittenFailedDeletes(op, row) ==
    CASE op.op = "insert" -> PendingRow
      [] op.op = "verified" ->
            IF row = NoRow THEN NoRow
            ELSE [status |-> "Verified", hash |-> op.hash, expiry |-> op.expiry,
                  txHash |-> op.txHash]
      [] op.op = "failed" -> NoRow

\* the row a write statement leaves for its wallet
Written(op, row) ==
    CASE op.op = "insert" -> PendingRow
      [] op.op = "verified" ->
            IF row = NoRow THEN NoRow
            ELSE [status |-> "Verified", hash |-> op.hash, expiry |-> op.expiry,
                  txHash |-> op.txHash]
      [] op.op = "failed" ->
            IF row = NoRow THEN NoRow ELSE [row EXCEPT !.status = "Failed"]

\* an UPDATE that has lost its WHERE wallet = ?
DbRunNoWhere(op) ==
    /\ BagIn(op, dbq)
    /\ dbq' = Take(dbq, op)
    /\ db' = [k \in Keys |-> IF op.op = "insert"
                             THEN (IF k = op.wallet THEN PendingRow ELSE db[k])
                             ELSE Written(op, db[k])]
    /\ phase' = IF op.op = "insert" \/ db[op.wallet] = NoRow THEN phase
                ELSE [phase EXCEPT ![op.wallet] = op.op]
    /\ Silent
    /\ UNCHANGED <<inflight, nreq, workers, ntx, chain, now>>

\* a statement of db.run executes
DbRun(op) ==
    /\ BagIn(op, dbq)
    /\ dbq' = Take(dbq, op)
    /\ db' = [db EXCEPT ![op.wallet] = Written(op, @)]
    /\ phase' = IF op.op = "insert" \/ db[op.wallet] = NoRow THEN phase
                ELSE [phase EXCEPT ![op.wallet] = op.op]
    /\ Silent
    /\ UNCHANGED <<inflight, nreq, workers, ntx, chain, now>>

\* a statement of db.run fails: nothing is written
DbRunError(op) ==
    /\ BagIn(op, dbq)
    /\ dbq' = Take(dbq, op)
    /\ Silent
    /\ UNCHANGED <<db, inflight, nreq, workers, ntx, chain, now, phase>>

----------------------------------------------------------------------------
(* processVerification *)

\* an UPDATE that takes the expiry from the clock again instead of the payload's
VerifiedOpFreshExpiry(w) ==
    [op |-> "verified", wallet |-> w.wallet, hash |-> verificationHash(w.wallet, w.expiry),
     expiry |-> now + Year, txHash |-> w.txHash]

\* UPDATE verifications SET status = 'Verified', hash, expiry, txHash WHERE wallet = ?
VerifiedOp(w) ==
    [op |-> "verified", wallet |-> w.wallet, hash |-> verificationHash(w.wallet, w.expiry),
     expiry |-> w.expiry, txHash |-> w.txHash]

\* UPDATE verifications SET status = 'Failed' WHERE wallet = ?
FailedOp(w) ==
    [op |-> "failed", wallet |-> w.wallet, hash |-> NullHash, expiry |-> NullInt,
     txHash |-> NullInt]

\* the timer fires: expiry, payload, and the call of contract.addVerification
TimerFire(w) ==
    /\ BagIn(w, workers)
    /\ w.pc = "timer"
    /\ \E t \in now..MaxClock :
          /\ now' = t
          /\ workers' = Put(Take(workers, w), [w EXCEPT !.pc = "submitting", !.expiry = t + Year])
    /\ Silent
    /\ UNCHANGED <<db, inflight, nreq, dbq, ntx, chain, phase>>

\* the catch block
Fail(w) ==
    /\ workers' = Take(workers, w)
    /\ dbq' = Put(dbq, FailedOp(w))

\* contract.addVerification rejects
LedgerReject(w) ==
    /\ BagIn(w, workers)
    /\ w.pc = "submitting"
    /\ Fail(w)
    /\ Silent
    /\ UNCHANGED <<db, inflight, nreq, ntx, chain, now, phase>>

\* contract.addVerification returns the transaction; the worker awaits tx.wait()
LedgerAccept(w) ==
    /\ BagIn(w, workers)
    /\ w.pc = "submitting"
    /\ ntx' = ntx + 1
    /\ workers' = Put(Take(workers, w), [w EXCEPT !.pc = "waiting", !.txHash = ntx + 1])
    /\ Silent
    /\ UNCHANGED <<db, inflight, nreq, dbq, chain, now, phase>>

\* what the contract call carried: (user, verificationHash, expiry, issuerSig)
Attestation(w) ==
    [user |-> w.wallet, hash |-> verificationHash(w.wallet, w.expiry), expiry |-> w.expiry,
     sig |-> signature(verificationHash(w.wallet, w.expiry)), txHash |-> w.txHash]

\* tx.wait() resolves: the UPDATE to 'Verified' is handed to db.run
LedgerConfirm(w) ==
    /\ BagIn(w, workers)
    /\ w.pc = "waiting"
    /\ chain' = chain \cup {Attestation(w)}
    /\ workers' = Take(workers, w)
    /\ dbq' = Put(dbq, VerifiedOp(w))
    /\ Silent
    /\ UNCHANGED <<db, inflight, nreq, ntx, now, phase>>

\* tx.wait() throws: the transaction was reverted
LedgerRevert(w) ==
    /\ BagIn(w, workers)
    /\ w.pc = "waiting"
    /\ Fail(w)
    /\ Silent
    /\ UNCHANGED <<db, inflight, nreq, ntx, chain, now, phase>>

\* the transaction is never mined: tx.wait() has no timeout and never settles
LedgerDrop(w) ==
    /\ BagIn(w, workers)
    /\ w.pc = "waiting"
    /\ workers' = Put(Take(workers, w), [w EXCEPT !.pc = "stuck"])
    /\ Silent
    /\ UNCHANGED <<db, inflight, nreq, dbq, ntx, chain, now, phase>>

----------------------------------------------------------------------------
(* The server process stops and is started again *)

\* ./kyc.db is a file and outlives the process; the requests being handled, the
\* statements not yet executed and the timers and awaits of processVerification
\* live in memory and are gone.  Start-up only opens the file and creates the
\* table if it is missing.  A transaction the ledger has accepted may still be
\* mined.
Restart ==
    /\ inflight # EmptyBag \/ dbq # EmptyBag \/ workers # EmptyBag
    /\ inflight' = EmptyBag
    /\ dbq' = EmptyBag
    /\ workers' = EmptyBag
    /\ \E mined \in SUBSET {w \in BagToSet(workers) : w.pc = "waiting"} :
          chain' = chain \cup {Attestation(w) : w \in mined}
    /\ phase' = [k \in Keys |-> IF phase[k] = "open" THEN "lost" ELSE phase[k]]
    /\ Silent
    /\ UNCHANGED <<db, nreq, ntx, now>>

----------------------------------------------------------------------------
(* index.tsx: App, VerificationDashboard, getVerificationStatus *)

\* what eth_requestAccounts and the accountsChanged event hand over
Accounts == {<<>>, <<WalletA.val>>, <<WalletB.val>>}

\* the Nav buttons the user presses
NavScreens == {"onboarding", "dashboard", "setup"}

StatusCall(wallet) == [kind |-> "status", wallet |-> wallet, screen |-> "none"]

\* connectWallet awaiting the wallet; it holds the handleAccountsChanged of the
\* render it was created in, which closes over that render's walletAddress and
\* activeScreen
ConnectCall(a) == [kind |-> "connect", wallet |-> a.walletAddress, screen |-> a.activeScreen]

Calls(kind) == {c \in BagToSet(pending) : c.kind = kind}
NumCalls(kind) == BagCardinality([c \in Calls(kind) |-> CopiesIn(c, pending)])

\* handleAccountsChanged as created in a render with walletAddress w and
\* activeScreen scr, applied to the state a
handleAccountsChanged(a, accounts, w, scr) ==
    IF Len(accounts) = 0
    THEN [a EXCEPT !.walletAddress = NoWallet, !.kycStatus = "None",
                   !.activeScreen = "home", !.fetchedFor = NoWallet]
    ELSE IF accounts[1] # w
         THEN [a EXCEPT !.walletAddress = accounts[1],
                        !.activeScreen = IF scr # "setup" THEN "dashboard" ELSE @]
         ELSE a

\* VerificationDashboard is rendered with a wallet
Dashboard(a) == a.activeScreen = "dashboard" /\ a.walletAddress # NoWallet

\* the effects of the render that follows a state change: useEffect(checkStatus)
\* runs when the dashboard is mounted or its walletAddress has changed; leaving
\* the setup screen unmounts SetupGuide and its state
Render(old, new, calls) ==
    /\ app' = new
    /\ pending' = IF Dashboard(new) /\ (~Dashboard(old) \/ old.walletAddress # new.walletAddress)
                  THEN Put(calls, StatusCall(new.walletAddress))
                  ELSE calls
    /\ NumCalls("status")' <= MaxCalls
    /\ guide' = IF old.activeScreen = "setup" /\ new.activeScreen # "setup"
                THEN GuideStart ELSE guide

\* window.ethereum emits accountsChanged: the listener is the current handler
AccountsChanged(accounts) ==
    /\ Render(app, handleAccountsChanged(app, accounts, app.walletAddress, app.activeScreen),
              pending)
    /\ UNCHANGED <<Server, resp>>

\* a Nav button
Navigate(scr) ==
    /\ scr # app.activeScreen
    /\ Render(app, [app EXCEPT !.activeScreen = scr], pending)
    /\ UNCHANGED <<Server, resp>>

\* connectWallet up to its await; the buttons show while no wallet is connected
ConnectClick ==
    /\ app.walletAddress = NoWallet
    /\ app.activeScreen \in {"onboarding", "dashboard", "setup"}
    /\ Calls("connect") = {}
    /\ pending' = Put(pending, ConnectCall(app))
    /\ UNCHANGED <<Server, resp, app, guide>>

\* eth_requestAccounts resolves: connectWallet calls the handler it holds
ConnectGranted(c, accounts) ==
    /\ c \in Calls("connect")
    /\ Len(accounts) > 0
    /\ Render(app, handleAccountsChanged(app, accounts, c.wallet, c.screen), Take(pending, c))
    /\ UNCHANGED <<Server, resp>>

\* eth_requestAccounts rejects: the catch only sets the notification
ConnectRejected(c) ==
    /\ c \in Calls("connect")
    /\ pending' = Take(pending, c)
    /\ UNCHANGED <<Server, resp, app, guide>>

\* checkStatus by the Refresh button, or the 10 s poll: a call for the wallet of
\* the dashboard that is mounted
CheckStatus ==
    /\ Dashboard(app)
    /\ NumCalls("status") < MaxCalls
    /\ pending' = Put(pending, StatusCall(app.walletAddress))
    /\ UNCHANGED <<Server, resp, app, guide>>

\* what getVerificationStatus returns for the answer r of the server: axios.get
\* throws unless the answer is a 2xx, and the catch returns 'None'
getVerificationStatus(wallet, r) ==
    IF ~isAddress(Str(wallet)) \/ r.code # 200 THEN "None"
    ELSE IF r.status = "" THEN "Unknown" ELSE r.status

\* getVerificationStatus with an answer from the server, then onStatusChange
GetStatusAnswered(c) ==
    /\ c \in Calls("status")
    /\ isAddress(Str(c.wallet))
    /\ StatusRequest(Str(c.wallet))
    /\ pending' = Take(pending, c)
    /\ app' = [app EXCEPT !.kycStatus = getVerificationStatus(c.wallet, resp'),
                          !.fetchedFor = c.wallet]
    /\ UNCHANGED guide

\* getVerificationStatus when axios.get throws (here on a 500 of the server): the
\* catch returns 'None', then onStatusChange
GetStatusFailed(c) ==
    /\ c \in Calls("status")
    /\ isAddress(Str(c.wallet))
    /\ StatusReadError(Str(c.wallet))
    /\ pending' = Take(pending, c)
    /\ app' = [app EXCEPT !.kycStatus = getVerificationStatus(c.wallet, resp'),
                          !.fetchedFor = c.wallet]
    /\ UNCHANGED guide

\* the page, and the server steps by which a wallet gets a record: a submit
\* from any client, and a run that the ledger rejects
AppNext ==
    \/ \E accounts \in Accounts : AccountsChanged(accounts)
    \/ \E scr \in NavScreens : Navigate(scr)
    \/ ConnectClick
    \/ \E c \in BagToSet(pending), accounts \in Accounts : ConnectGranted(c, accounts)
    \/ \E c \in BagToSet(pending) : ConnectRejected(c)
    \/ CheckStatus
    \/ \E c \in BagToSet(pending) : GetStatusAnswered(c)
    \/ \E c \in BagToSet(pending) : GetStatusFailed(c)
    \/ SubmitRead(WalletA) /\ UNCHANGED Browser
    \/ \E q \in BagToSet(inflight) : SubmitCallback(q) /\ UNCHANGED Browser
    \/ \E op \in BagToSet(dbq) : DbRun(op) /\ UNCHANGED Browser
    \/ \E w \in BagToSet(workers) : TimerFire(w) /\ UNCHANGED Browser
    \/ \E w \in BagToSet(workers) : LedgerReject(w) /\ UNCHANGED Browser

AppSpec == Init /\ [][AppNext]_vars

----------------------------------------------------------------------------
(* SetupGuide and handleDeploy *)

StepIndexes == 0..6
ErrorCodes == {"ACTION_REJECTED", "INSUFFICIENT_FUNDS", "UNKNOWN_ERROR"}
ContractAddress == "0xc0"
TypedAddress == "0xty"

\* the guide with its steps is rendered only for a connected wallet; a wallet
\* is connected only where window.ethereum exists, so the first branch of
\* handleDeploy is never taken from the rendered button
OnGuide == app.activeScreen = "setup" /\ app.walletAddress # NoWallet

GuideStep(g) ==
    /\ guide' = g
    /\ UNCHANGED <<Server, resp, app, pending>>

\* the step header: setActiveStep(activeStep === index ? -1 : index)
ToggleStep(index) ==
    /\ OnGuide
    /\ GuideStep([guide EXCEPT !.activeStep = IF @ = index THEN 0 - 1 ELSE index])

\* the input of step 5
TypeAddress(text) ==
    /\ OnGuide
    /\ guide.activeStep = 4
    /\ text # guide.contractAddressInput
    /\ GuideStep([guide EXCEPT !.contractAddressInput = text])

\* the button of step 4, disabled while isDeploying: handleDeploy up to its
\* first await
DeployClick ==
    /\ OnGuide
    /\ guide.activeStep = 3
    /\ ~guide.isDeploying
    /\ GuideStep([guide EXCEPT !.isDeploying = TRUE, !.deploymentError = "",
                               !.deploymentResult = "null", !.confirmed = FALSE,
                               !.pc = "eth_requestAccounts"])

RequestAccountsDone ==
    /\ guide.pc = "eth_requestAccounts"
    /\ GuideStep([guide EXCEPT !.pc = "getSigner"])

GetSignerDone ==
    /\ guide.pc = "getSigner"
    /\ GuideStep([guide EXCEPT !.pc = "deploy"])

\* factory.deploy() resolves once the transaction is sent
DeploySent ==
    /\ guide.pc = "deploy"
    /\ GuideStep([guide EXCEPT !.deploymentResult = "...", !.pc = "waitForDeployment"])

\* waitForDeployment and getAddress resolve
DeployConfirmed ==
    /\ guide.pc = "waitForDeployment"
    /\ GuideStep([guide EXCEPT !.deploymentResult = ContractAddress,
                               !.contractAddressInput = ContractAddress,
                               !.activeStep = 4, !.confirmed = TRUE,
                               !.isDeploying = FALSE, !.pc = "idle"])

\* the message the catch block chooses by error.code
deploymentErrorFor(code) ==
    IF code = "ACTION_REJECTED" THEN "Transaction rejected by user."
    ELSE IF code = "INSUFFICIENT_FUNDS" THEN "Insufficient funds for deployment."
    ELSE "An unexpected error occurred."

\* the error codes an await can reject with: the user declines in the wallet
\* prompt of eth_requestAccounts or of deploy, the balance check fails at
\* deploy; a transport error, or a transaction that reverts or is replaced,
\* carries another code
CodesAt(pc) ==
    IF pc = "eth_requestAccounts" THEN {"ACTION_REJECTED", "UNKNOWN_ERROR"}
    ELSE IF pc = "deploy" THEN ErrorCodes
    ELSE {"UNKNOWN_ERROR"}

\* an await of the try block rejects: catch, then finally
DeployFailed(code) ==
    /\ guide.pc # "idle"
    /\ code \in CodesAt(guide.pc)
    /\ GuideStep([guide EXCEPT !.deploymentError = deploymentErrorFor(code),
                               !.isDeploying = FALSE, !.pc = "idle"])

\* the page without the server's submit path, and the guide
GuideNext ==
    \/ \E accounts \in Accounts : AccountsChanged(accounts)
    \/ \E scr \in NavScreens : Navigate(scr)
    \/ ConnectClick
    \/ \E c \in BagToSet(pending), accounts \in Accounts : ConnectGranted(c, accounts)
    \/ \E c \in BagToSet(pending) : ConnectRejected(c)
    \/ \E c \in BagToSet(pending) : GetStatusAnswered(c)
    \/ \E index \in StepIndexes : ToggleStep(index)
    \/ \E text \in {"", TypedAddress} : TypeAddress(text)
    \/ DeployClick
    \/ RequestAccountsDone
    \/ GetSignerDone
    \/ DeploySent
    \/ DeployConfirmed
    \/ \E code \in ErrorCodes : DeployFailed(code)

GuideSpec == Init /\ [][GuideNext]_vars

----------------------------------------------------------------------------
NextOn(submits, statuses) ==
    \/ \E v \in submits : SubmitInvalid(v) /\ UNCHANGED Browser
    \/ \E v \in submits : SubmitRead(v) /\ UNCHANGED Browser
    \/ \E v \in submits : SubmitReadError(v) /\ UNCHANGED Browser
    \/ \E q \in BagToSet(inflight) : SubmitCallback(q) /\ UNCHANGED Browser
    \/ \E v \in statuses : StatusInvalid(v) /\ UNCHANGED Browser
    \/ \E v \in statuses : StatusRequest(v) /\ UNCHANGED Browser
    \/ \E v \in statuses : StatusReadError(v) /\ UNCHANGED Browser
    \/ \E op \in BagToSet(dbq) : DbRun(op) /\ UNCHANGED Browser
    \/ \E op \in BagToSet(dbq) : DbRunError(op) /\ UNCHANGED Browser
    \/ \E w \in BagToSet(workers) : TimerFire(w) /\ UNCHANGED Browser
    \/ \E w \in BagToSet(workers) : LedgerReject(w) /\ UNCHANGED Browser
    \/ \E w \in BagToSet(workers) : LedgerAccept(w) /\ UNCHANGED Browser
    \/ \E w \in BagToSet(workers) : LedgerConfirm(w) /\ UNCHANGED Browser
    \/ \E w \in BagToSet(workers) : LedgerRevert(w) /\ UNCHANGED Browser
    \/ \E w \in BagToSet(workers) : LedgerDrop(w) /\ UNCHANGED Browser

\* one identity, and malformed or missing ones
Next == NextOn(SubmitInputs, StatusInputs)

Spec == Init /\ [][Next]_vars

\* what the event loop, the database and a responsive ledger always get done:
\* callbacks run, statements complete, timers fire, ledger calls settle
Progress ==
    /\ UNCHANGED Browser
    /\ \/ \E q \in BagToSet(inflight) : SubmitCallback(q)
       \/ \E op \in BagToSet(dbq) : DbRun(op) \/ DbRunError(op)
       \/ \E w \in BagToSet(workers) :
             TimerFire(w) \/ LedgerReject(w) \/ LedgerAccept(w) \/ LedgerConfirm(w)
                \/ LedgerRevert(w) \/ LedgerDrop(w)

FairSpec == Spec /\ WF_vars(Progress)

\* one address in two spellings that ethers.isAddress accepts, lower case and
\* checksummed, and a malformed string
AliasInputs == {WalletA, WalletAck, Short}

AliasNext == NextOn(AliasInputs, AliasInputs)

AliasSpec == Init /\ [][AliasNext]_vars

\* the server with stops and restarts
RestartNext == NextOn(SubmitInputs, StatusInputs) \/ (Restart /\ UNCHANGED Browser)

RestartSpec == Init /\ [][RestartNext]_vars

\* two different addresses, and a malformed string
PairInputs == {WalletA, WalletB, Short}

PairNext == NextOn(PairInputs, PairInputs)

PairSpec == Init /\ [][PairNext]_vars

----------------------------------------------------------------------------
(* Properties *)

Submits(b) == b.kind = "submit"
Statuses(b) == b.kind = "status"

\* nothing is in flight for any wallet: no callback, statement or worker is left
Quiet == inflight = EmptyBag /\ dbq = EmptyBag /\ workers = EmptyBag

\* a worker of wallet k waits for a transaction that is never mined
Stuck(k) == \E w \in BagToSet(workers) : w.wallet = k /\ w.pc = "stuck"

\* C1: of the submits for one identity that overlap, one is answered 202 and the
\* others 409: a 202 is answered only if no 202 was answered before for that
\* identity, or its record became 'Failed' since the last one.
C1_OneAcceptance ==
    (Submits(resp) /\ resp.code = 202) => resp.was \in {"none", "failed"}

\* C2: once the stored status of an identity is 'Verified', it stays 'Verified'.
C2_VerifiedAbsorbing ==
    [][\A k \in Keys : db[k].status = "Verified" => db'[k].status = "Verified"]_vars

\* C3: a submit whose SELECT reads 'Pending' or 'Verified' is answered 409 naming
\* that status, hands no statement to the database, starts no worker and leaves
\* the table as it is.
C3_ConflictRejected ==
    [][(Submits(resp') /\ resp'.row.status \in {"Pending", "Verified"}) =>
          /\ resp'.code = 409
          /\ resp'.status = resp'.row.status
          /\ UNCHANGED <<db, dbq, workers, ntx, chain>>]_vars

C3_Witness ==
    /\ Submits(resp) /\ resp.code = 409 /\ resp.status = "Verified"
    /\ db[WalletA.val].status = "Verified"

\* C4: a status query answered after a 202 and before a terminal write reports
\* 'Pending'; one answered after the terminal write reports 'Verified' or 'Failed'.
C4_StatusAfterAccept ==
    (Statuses(resp) /\ resp.code = 200) =>
        /\ resp.was = "open" => resp.status = "Pending"
        /\ resp.was \in {"verified", "failed"} => resp.status \in {"Verified", "Failed"}

\* C5: with a ledger that always answers, an accepted submit is not left 'Pending'
\* forever: when nothing is in flight any more, no record is 'Pending'.
C5_NeverLeftPending ==
    Quiet => \A k \in Keys : db[k].status # "Pending"

\* C6: when the ledger never reports the confirmation, the worker times out and
\* the record becomes 'Failed'.
C6_TimeoutFails ==
    \A k \in Keys : [](Stuck(k) => <>(db[k].status = "Failed"))

AllSet(row) == row.hash # NullHash /\ row.expiry # NullInt /\ row.txHash # NullInt
AllUnset(row) == row.hash = NullHash /\ row.expiry = NullInt /\ row.txHash = NullInt

\* C7: hash, expiry and txHash of a record are all set or all unset, and they are
\* set exactly when its status is 'Verified'.
C7_FieldsTogether ==
    \A k \in Keys :
        db[k] # NoRow =>
            /\ AllSet(db[k]) \/ AllUnset(db[k])
            /\ AllSet(db[k]) <=> db[k].status = "Verified"

\* C8: a submit for an address that reads 'Failed' or no record is answered 202,
\* hands the INSERT of a fresh 'Pending' record to the database and starts one
\* worker run, and that run ends with the record 'Verified' or 'Failed'.
C8_ResubmitCycle ==
    /\ [][(Submits(resp') /\ isAddress(resp'.wallet)
                             /\ resp'.row.status \in {"Failed", "absent"}) =>
             /\ resp'.code = 202
             /\ dbq' = Put(dbq, InsertOp(resp'.wallet.val))
             /\ workers' = Put(workers, NewWorker(resp'.wallet.val))]_vars
    /\ \A k \in Keys : [](phase[k] = "open" => <>(db[k].status \in {"Verified", "Failed"}))

\* C9: both endpoints answer 400 exactly for the strings that are no address, and
\* a 400 changes nothing: no statement, no worker, no ledger call.
C9_InvalidRejected ==
    [][(Submits(resp') \/ Statuses(resp')) =>
          /\ resp'.code = 400 <=> ~isAddress(resp'.wallet)
          /\ resp'.code = 400 => UNCHANGED <<db, inflight, nreq, dbq, workers, ntx, chain>>]_vars

C9_Witness ==
    /\ Statuses(resp) /\ resp.code = 400 /\ resp.wallet = BadSum
    /\ db[WalletA.val].status = "Pending"

\* C10: a status request changes no record, starts no worker and calls no ledger.
C10_StatusIsRead ==
    [][Statuses(resp') => UNCHANGED <<db, inflight, dbq, workers, ntx, chain>>]_vars

C10_Witness ==
    /\ Statuses(resp) /\ resp.status = "Pending"
    /\ \E w \in BagToSet(workers) : w.pc = "waiting"

\* C11: a status request for an address answers 'None' exactly when the table has
\* no row for it, and otherwise the row's status, expiry and txHash; a 'Failed'
\* row is answered as 'Failed'.
C11_StatusReportsRecord ==
    (Statuses(resp) /\ resp.code = 200) =>
        LET row == db[resp.wallet.val]
        IN  /\ resp.status = "None" <=> row = NoRow
            /\ row # NoRow =>
                  /\ resp.status = row.status
                  /\ resp.expiry = row.expiry
                  /\ resp.txHash = row.txHash
            /\ row.status = "Failed" => resp.status = "Failed"

C11_Witness ==
    /\ Statuses(resp) /\ resp.code = 200 /\ resp.status = "Failed"
    /\ db[WalletA.val].status = "Failed"

\* the processVerification runs, scheduled or executing, of wallet k
WorkersOf(k) == {w \in BagToSet(workers) : w.wallet = k}
RunsOf(k) == BagCardinality([w \in WorkersOf(k) |-> CopiesIn(w, workers)])

\* C12: an identity has at most one worker run, scheduled or executing, at a time.
C12_OneRunPerIdentity ==
    \A k \in Keys : RunsOf(k) <= 1

\* the UPDATE to 'Failed' of wallet k has been handed to the database
FailedPending(k) == \E op \in BagToSet(dbq) : op.op = "failed" /\ op.wallet = k

\* a run that ends without a confirmation hands the UPDATE to 'Failed' to the
\* database and answers no request
HandsFailed ==
    \A w \in BagToSet(workers) :
        (workers' = Take(workers, w) /\ chain' = chain) =>
            dbq' = Put(dbq, FailedOp(w)) /\ resp' = NoResp

\* C13: a run that ends without a confirmation hands the UPDATE to 'Failed' to the
\* database and answers no request, and the record then becomes 'Failed'.
C13_FailureRecorded ==
    /\ [][HandsFailed]_vars
    /\ \A k \in Keys : [](FailedPending(k) => <>(db[k].status = "Failed"))

\* C14: once a worker has written 'Failed' for an identity, contract.addVerification
\* is not called for it again until a new submit is answered 202.
C14_NoRetry ==
    [][\A w \in BagToSet(workers) : TimerFire(w) => phase[w.wallet] # "failed"]_vars

\* C15: the step that answers 202 leaves the new run on its timer, before
\* contract.addVerification; no step that answers a request calls the ledger,
\* takes a ledger outcome or moves a run.
C15_AnswerBeforeLedger ==
    [][resp'.kind # "none" =>
          /\ UNCHANGED <<ntx, chain>>
          /\ IF Submits(resp') /\ resp'.code = 202
             THEN workers' = Put(workers, [wallet |-> resp'.wallet.val, pc |-> "timer",
                                           expiry |-> NullInt, txHash |-> NullInt])
             ELSE workers' = workers]_vars

C15_Witness ==
    /\ Submits(resp) /\ resp.code = 202 /\ resp.row.status = "Failed"
    /\ \E w \in BagToSet(workers) : w.pc = "timer"

\* the INSERT of wallet k's 'Pending' record is still with the database
InsertPending(k) == \E op \in BagToSet(dbq) : op.op = "insert" /\ op.wallet = k

\* C16: a submit whose INSERT of the 'Pending' record failed is not answered 202:
\* once a 202 was answered for an identity and no INSERT is pending for it, its
\* record exists.
C16_NoDroppedTransition ==
    \A k \in Keys : (phase[k] # "none" /\ ~InsertPending(k)) => db[k] # NoRow

\* two wallet texts spell the same address
SameIdentity(k1, k2) ==
    Len(k1) = Len(k2) /\ \A i \in 1..Len(k1) : ToLower(k1[i]) = ToLower(k2[i])

\* C17: the table never holds two records for one identity, whatever the
\* spellings the requests used.
C17_OneRecordPerIdentity ==
    \A k1, k2 \in Keys :
        (SameIdentity(k1, k2) /\ db[k1] # NoRow /\ db[k2] # NoRow) => k1 = k2

\* all that the server holds for wallet k: its record, and its requests,
\* statements and runs with their numbers
Own(k) ==
    <<db[k],
      [x \in {y \in BagToSet(inflight) \cup BagToSet(dbq) \cup BagToSet(workers) : y.wallet = k}
          |-> <<CopiesIn(x, inflight), CopiesIn(x, dbq), CopiesIn(x, workers)>>]>>

\* C18: a record changes only when a statement for its own wallet executes, and
\* no step touches what the server holds for two different wallets: the steps of
\* one identity leave the record, requests, statements and runs of another as
\* they are.
C18_Independent ==
    [][/\ \A k \in Keys :
             db'[k] # db[k] => \E op \in BagToSet(dbq) : op.wallet = k /\ dbq' = Take(dbq, op)
       /\ \A k1, k2 \in Keys : (Own(k1)' # Own(k1) /\ Own(k2)' # Own(k2)) => k1 = k2]_vars

C18_Witness ==
    /\ db[WalletA.val].status = "Pending" /\ db[WalletB.val].status = "Verified"
    /\ \E w \in WorkersOf(WalletA.val) : w.pc = "waiting"

\* C19: a 'Verified' record holds the digest, expiry and transaction of one call
\* for the same wallet that the ledger confirmed, and every confirmed call
\* carried the digest of (issuer, its wallet, its expiry) and the signature of
\* that digest.
C19_VerifiedMatchesLedger ==
    /\ \A k \in Keys :
          db[k].status = "Verified" =>
              \E a \in chain : /\ a.user = k
                               /\ a.hash = db[k].hash
                               /\ a.expiry = db[k].expiry
                               /\ a.txHash = db[k].txHash
    /\ \A a \in chain : /\ a.hash = <<Issuer, ToChecksum(SubSeq(a.user, 3, Len(a.user))), a.expiry>>
                        /\ a.sig = <<"sig", Issuer, a.hash>>

C19_Witness ==
    db[WalletA.val].status = "Verified" /\ Cardinality(chain) = 2

C21_TerminalWriteGuarded ==
    [][\A k \in Keys :
          (db'[k] # db[k] /\ db'[k].status \in {"Verified", "Failed"}) =>
              db[k].status = "Pending"]_vars

\* C23: no step removes a record: a wallet that has a row keeps one, so a status
\* request that could answer a status other than 'None' can do so ever after,
\* also while and after an accepted resubmission replaces a 'Failed' record.
C23_NeverDeleted ==
    [][/\ \A k \in Keys : db[k] # NoRow => db'[k] # NoRow
       /\ (Statuses(resp') /\ resp'.code = 200 /\ db[resp'.wallet.val] # NoRow) =>
              resp'.status # "None"]_vars

C23_Witness ==
    /\ db[WalletA.val].status = "Pending" /\ phase[WalletA.val] = "open"
    /\ nreq = 2 /\ ntx = 1 /\ chain = {} /\ dbq = EmptyBag /\ inflight = EmptyBag
    /\ RunsOf(WalletA.val) = 1
    /\ \A w \in BagToSet(workers) : w.pc = "timer"

\* no run and no statement is left for wallet k
Settled(k) == RunsOf(k) = 0 /\ \A op \in BagToSet(dbq) : op.wallet # k

\* C24: when no run and no statement is left for an identity and the ledger has
\* confirmed an attestation for it, its stored status is 'Verified'.
C24_AgreesWithLedger ==
    \A k \in Keys :
        (Settled(k) /\ \E a \in chain : a.user = k) => db[k].status = "Verified"

\* C22: when the server stopped between a 202 answer and the terminal write, the
\* record is 'Pending' after the restart and stays so: no run exists for it and
\* every submit for it that reads the table is answered 409.
C22_StaysPending ==
    [][\A k \in Keys :
          phase[k] = "lost" =>
              /\ phase'[k] = "lost"
              /\ db'[k].status = "Pending"
              /\ WorkersOf(k)' = {}
              /\ (Submits(resp') /\ resp'.wallet.val = k /\ resp'.code # 500) =>
                     resp'.code = 409]_vars

\* a 'Pending' record with no run, no statement and no accepting request left
Orphan(k) ==
    /\ db[k].status = "Pending"
    /\ Settled(k)
    /\ \A q \in BagToSet(inflight) : q.wallet = k => Conflict(q.row)

\* such a record stays as it is, and a submit that reads it is answered 409
OrphanStays ==
    [][\A k \in Keys :
          Orphan(k) =>
              /\ Orphan(k)'
              /\ (Submits(resp') /\ resp'.wallet.val = k /\ resp'.code # 500) =>
                     resp'.code = 409]_vars

\* a record orphaned by a restart, and a later submit answered 409
OrphanAfterRestart ==
    \E k \in Keys : phase[k] = "lost" /\ Orphan(k) /\ Submits(resp) /\ resp.code = 409

\* C25: a status call that has resolved returned the status of the wallet's
\* record if it has one, and 'None' only if it has none.
C25_NoneOnlyWithoutRecord ==
    [][\A c \in Calls("status") :
          pending' = Take(pending, c) =>
              /\ app'.kycStatus = "None" => db[c.wallet] = NoRow
              /\ db[c.wallet] # NoRow => app'.kycStatus = db[c.wallet].status]_vars

\* C26: when no status call is outstanding, the kycStatus of a page without a
\* wallet is 'None', and the kycStatus the dashboard shows was fetched for the
\* wallet that is connected.
C26_ShowsCurrentWallet ==
    Calls("status") = {} =>
        /\ app.walletAddress = NoWallet => app.kycStatus = "None"
        /\ Dashboard(app) => app.fetchedFor = app.walletAddress

\* what C27 says a run of handleAccountsChanged does to the page as it is
AccountsHandled(accounts) ==
    IF Len(accounts) = 0
    THEN /\ app'.walletAddress = NoWallet
         /\ app'.kycStatus = "None"
         /\ app'.activeScreen = "home"
    ELSE IF accounts[1] # app.walletAddress
         THEN /\ app'.walletAddress = accounts[1]
              /\ app'.activeScreen = IF app.activeScreen = "setup" THEN "setup" ELSE "dashboard"
              /\ app'.kycStatus = app.kycStatus
         ELSE app' = app

\* C27: every run of handleAccountsChanged, from the accountsChanged event or
\* from connectWallet, treats the page's current walletAddress and activeScreen
\* as the claim describes.
C27_AccountsChanged ==
    [][\A accounts \in Accounts :
          (AccountsChanged(accounts)
             \/ \E c \in Calls("connect") : ConnectGranted(c, accounts)) =>
              AccountsHandled(accounts)]_vars

\* handleDeploy moves on
DeployStep == guide'.pc # guide.pc

\* C28: once a run of handleDeploy is over, isDeploying is false, the guide does
\* not hold a deployment result together with a deployment error, and a result
\* is held only for a confirmed deployment; handleDeploy moves the guide to
\* step 4 only with a confirmed deployment.
C28_DeployOutcome ==
    /\ [](guide.pc = "idle" =>
            /\ ~guide.isDeploying
            /\ ~(guide.deploymentResult # "null" /\ guide.deploymentError # "")
            /\ guide.deploymentResult # "null" => guide.confirmed)
    /\ [][DeployStep /\ guide'.activeStep = 4 /\ guide.activeStep # 4 =>
              guide'.confirmed /\ guide'.deploymentResult # "null"]_vars

\* the parts of C28 that hold: the finally block, and step 4 only on confirmation
C28_FinallyAndAdvance ==
    /\ [](guide.pc = "idle" => ~guide.isDeploying)
    /\ [][DeployStep /\ guide'.activeStep = 4 /\ guide.activeStep # 4 =>
              guide'.confirmed /\ guide'.deploymentResult = ContractAddress]_vars

\* the accountsChanged listener, registered anew with every new
\* handleAccountsChanged, acts on the page as it is
C27_ListenerPath ==
    [][\A accounts \in Accounts : AccountsChanged(accounts) => AccountsHandled(accounts)]_vars

====
